---- MODULE Spec2Model ----
(***************************************************************************)
(* Booking add-on: the reservation protocol of backend/src/main.rs         *)
(* (post_form_process_before / _after / _error over PROCESSING_FORMS) and  *)
(* the slot generator gather_available_hours it depends on.                *)
(*                                                                         *)
(* Times are seconds since local midnight, durations are seconds (the      *)
(* store's duration and break fields are minutes).                         *)
(***************************************************************************)
EXTENDS Integers, Sequences, FiniteSets, TLC

(***************************************************************************)
(* Bounds of the model.                                                    *)
(***************************************************************************)
MaxBookings == 2
MaxCalls == 3
MaxSlots == 9
\* the days after the requested date that the model's calendar reaches (the
\* time crate's calendar ends with the year 9999)
LastDay == 2
\* the last year the model's calendar reaches (the time crate's is 9999)
HorizonYear == 2027

SecondsPerMinute == 60
SecondsPerDay == 86400

(***************************************************************************)
(* The external store: the rows the handlers fetch by id.                  *)
(***************************************************************************)
Clients == {"c1", "c2"}
ClientKeys == {"ka", "kb"}
NoClient == "nobody"

ScheduleIds == {"s1", "s2"}
StaffScheduleIds == {"ss1", "ss2"}

\* rows of the "schedule" collection (break 15 / duration 45 is the installed row)
ScheduleRow(id) ==
    IF id = "s1"
    THEN [id |-> "s1", service |-> "v1", duration |-> 45, break |-> 15]
    ELSE [id |-> "s2", service |-> "v2", duration |-> 60, break |-> 0]

\* rows of the "staffSchedule" collection
StaffScheduleRow(id) ==
    IF id = "ss1"
    THEN [id |-> "ss1", schedule |-> "s1", staff |-> "m1",
          timeZone |-> "America/Los_Angeles", start |-> 36000, end |-> 43200]
    ELSE [id |-> "ss2", schedule |-> "s2", staff |-> "m2",
          timeZone |-> "America/Los_Angeles", start |-> 36000, end |-> 43200]

\* webby_global_common::tz::find_offset_by_id, for the zone the rows use
find_offset_by_id(tz) ==
    IF tz = "America/Los_Angeles" THEN 0 - 28800
    ELSE IF tz = "Asia/Tokyo" THEN 32400
    ELSE 0

(***************************************************************************)
(* time crate values.  An OffsetDateTime is its local wall clock (seconds  *)
(* since the local midnight of the listed date) and its offset.            *)
(***************************************************************************)
Instant(dt) == dt.local - dt.off
assume_offset(local, off) == [local |-> local, off |-> off]
replace_offset(dt, off) == [local |-> dt.local, off |-> off]
TimeOf(dt) == dt.local % SecondsPerDay
\* Time + Duration wraps around midnight
TimeAdd(t, d) == (t + d) % SecondsPerDay

IsLeap(y) == (y % 4 = 0 /\ y % 100 # 0) \/ y % 400 = 0
DaysInMonth(y, m) ==
    IF m = 2 THEN (IF IsLeap(y) THEN 29 ELSE 28)
    ELSE IF m \in {4, 6, 9, 11} THEN 30 ELSE 31
\* Date::from_calendar_date(year, Month::try_from(month)?, day)? succeeds
from_calendar_date_ok(year, month, day) ==
    /\ month \in 1..12
    /\ day \in 1..DaysInMonth(year, month)

\* the day number of a calendar date, counted from 1970-01-01 (time::Date)
days_from_civil(y, m, d) ==
    LET yy == IF m <= 2 THEN y - 1 ELSE y
        era == yy \div 400
        yoe == yy - era * 400
        mp == IF m > 2 THEN m - 3 ELSE m + 9
        doy == (153 * mp + 2) \div 5 + d - 1
        doe == yoe * 365 + yoe \div 4 - yoe \div 100 + doy
    IN era * 146097 + doe - 719468

\* the calendar date <<year, month, day>> of a day number
civil_from_days(z) ==
    LET zz == z + 719468
        era == zz \div 146097
        doe == zz - era * 146097
        yoe == (doe - doe \div 1460 + doe \div 36524 - doe \div 146096) \div 365
        doy == doe - (365 * yoe + yoe \div 4 - yoe \div 100)
        mp == (5 * doy + 2) \div 153
        d == doy - (153 * mp + 2) \div 5 + 1
        m == IF mp < 10 THEN mp + 3 ELSE mp - 9
        y == yoe + era * 400 + (IF m <= 2 THEN 1 ELSE 0)
    IN <<y, m, d>>

\* An instant is its number of seconds since 1970-01-01 00:00:00 UTC.
\* date.with_time(time).assume_offset(off).to_offset(UTC)
instant_of(date, time, off) ==
    days_from_civil(date[1], date[2], date[3]) * SecondsPerDay + time - off
\* t.to_offset(off).date(), .time(), .month(), .day(), .year()
date_at(t, off) == civil_from_days((t + off) \div SecondsPerDay)
time_at(t, off) == (t + off) % SecondsPerDay
year_at(t, off) == date_at(t, off)[1]
month_at(t, off) == date_at(t, off)[2]
day_at(t, off) == date_at(t, off)[3]

\* the largest instant: the last second of the calendar
MaxInstant == instant_of(<<HorizonYear, 12, 31>>, SecondsPerDay - 1, 0)
saturating_add_dropped(t, d) == t

\* OffsetDateTime::saturating_add
saturating_add(t, d) == IF t + d > MaxInstant THEN MaxInstant ELSE t + d

\* Time::parse(&time, "[hour]:[minute]:[second]"): a well-formed text is its
\* number of seconds, anything else is a parse error
BadTime == 0 - 1
TimeParseOk(t) == t \in 0..(SecondsPerDay - 1)

(***************************************************************************)
(* query_cms_rows on "bookings" with the two bookDate filters: the rows of *)
(* that UTC day, whatever their service.                                   *)
(***************************************************************************)
RECURSIVE SelectDay(_, _)
SelectDay(rows, date) ==
    IF rows = << >> THEN << >>
    ELSE LET r == Head(rows)
             rest == SelectDay(Tail(rows), date)
         IN IF r.bookDate.date = date
               /\ r.bookDate.time >= 0
               /\ r.bookDate.time <= SecondsPerDay - 1
            THEN <<r>> \o rest ELSE rest

query_bookings(rows, date) == SelectDay(rows, date)

(***************************************************************************)
(* gather_available_hours                                                  *)
(***************************************************************************)
booked_times_to_offset(dayRows, local_offset) ==
    { [local |-> dayRows[i].bookDate.time + local_offset, off |-> local_offset]
        : i \in 1..Len(dayRows) }

\* booked_times: each bookDate's wall clock with the offset replaced
booked_times(dayRows, local_offset) ==
    { replace_offset([local |-> dayRows[i].bookDate.time, off |-> 0], local_offset)
        : i \in 1..Len(dayRows) }

is_booked_half_open(booked, current_time_pos, duration) ==
    \E b \in booked :
        /\ Instant(b) >= Instant(current_time_pos)
        /\ Instant(b) < Instant(current_time_pos) + duration

\* booked_times.iter().any(|v| *v >= current_time_pos && *v <= current_time_pos + duration)
is_booked(booked, current_time_pos, duration) ==
    \E b \in booked :
        /\ Instant(b) >= Instant(current_time_pos)
        /\ Instant(b) <= Instant(current_time_pos) + duration

while_cond_strict(current_time_pos, duration, break_duration, end_time) ==
    TimeAdd(TimeAdd(TimeOf(current_time_pos), duration), break_duration) < end_time

\* current_time_pos.time() + duration + break_duration <= end_time
while_cond(current_time_pos, duration, break_duration, end_time) ==
    TimeAdd(TimeAdd(TimeOf(current_time_pos), duration), break_duration) <= end_time

RECURSIVE gather_loop(_, _, _, _, _, _, _, _)
gather_loop(current_time_pos, acc, duration, break_duration, end_time, booked, schedule, staff_schedule) ==
    IF /\ Len(acc) < MaxSlots
       /\ while_cond(current_time_pos, duration, break_duration, end_time)
    THEN LET utc_time_pos == replace_offset(current_time_pos, 0)
             hour == [start |-> utc_time_pos,
                      end |-> [utc_time_pos EXCEPT !.local = @ + duration],
                      is_booked |-> is_booked(booked, current_time_pos, duration),
                      service_id |-> schedule.service,
                      schedule_id |-> schedule.id,
                      staff_id |-> staff_schedule.staff,
                      staff_schedule_id |-> staff_schedule.id]
         IN gather_loop([current_time_pos EXCEPT !.local = @ + duration + break_duration],
                        Append(acc, hour), duration, break_duration, end_time,
                        booked, schedule, staff_schedule)
    ELSE acc

gather_available_hours_no_break(schedule, staff_schedule, dayRows) ==
    LET local_offset == find_offset_by_id(staff_schedule.timeZone)
        booked == booked_times(dayRows, local_offset)
        duration == schedule.duration * SecondsPerMinute
        current_time_pos == assume_offset(staff_schedule.start, local_offset)
    IN gather_loop(current_time_pos, << >>, duration, 0,
                   staff_schedule.end, booked, schedule, staff_schedule)

gather_available_hours(schedule, staff_schedule, dayRows) ==
    LET local_offset == find_offset_by_id(staff_schedule.timeZone)
        booked == booked_times(dayRows, local_offset)
        duration == schedule.duration * SecondsPerMinute
        break_duration == schedule.break * SecondsPerMinute
        current_time_pos == assume_offset(staff_schedule.start, local_offset)
    IN gather_loop(current_time_pos, << >>, duration, break_duration,
                   staff_schedule.end, booked, schedule, staff_schedule)

(***************************************************************************)
(* get_available_hours: the hour list of a staff schedule and a date, read *)
(* from the store.                                                         *)
(***************************************************************************)
get_available_hours(staff_schedule_id, date, rows) ==
    LET staff_schedule == StaffScheduleRow(staff_schedule_id)
        schedule == ScheduleRow(staff_schedule.schedule)
    IN gather_available_hours(schedule, staff_schedule, query_bookings(rows, date))

(***************************************************************************)
(* The requests clients send (FormProcessQuery, FormProcessJson).          *)
(***************************************************************************)
\* the client keys a client may send: c2 may also send the key of c1
KeysOf(c) == IF c = "c1" THEN {"ka"} ELSE ClientKeys

\* staff_schedule_id, schedule_id, service_id, staff_id as the store relates them
GoodIds == { <<"ss1", "s1", "v1", "m1">>, <<"ss2", "s2", "v2", "m2">> }
\* one tuple for each referential mismatch
BadIds == { <<"ss1", "s1", "v2", "m1">>, <<"ss2", "s1", "v1", "m1">>,
            <<"ss1", "s1", "v1", "m2">> }

\* day, month, year: a calendar date, and one that is none
GoodDate == <<2, 1, 2025>>
BadDate == <<30, 2, 2025>>

\* 10:00:00 and 11:00:00 (the slot starts of both schedules), and 10:30:00
SlotTimes == { 36000, 39600 }
OffTime == 10 * 3600 + 30 * 60

ContactOf(c) == IF c = "c1" THEN "ct1" ELSE "ct2"
SubmissionOf(c) == IF c = "c1" THEN "sd1" ELSE "sd2"

NoReq ==
    [op |-> "none", client_key |-> "", staff_schedule_id |-> "", schedule_id |-> "",
     service_id |-> "", staff_id |-> "", day |-> 0, month |-> 0, year |-> 0,
     time |-> BadTime, contact_uuid |-> "", schema_data_uuid |-> ""]

BeforeReq(k, ids, d, t) ==
    [op |-> "before", client_key |-> k, staff_schedule_id |-> ids[1],
     schedule_id |-> ids[2], service_id |-> ids[3], staff_id |-> ids[4],
     day |-> d[1], month |-> d[2], year |-> d[3], time |-> t,
     contact_uuid |-> "", schema_data_uuid |-> ""]

AfterReq(c, k, ids, d, t) ==
    [BeforeReq(k, ids, d, t) EXCEPT !.op = "after",
         !.contact_uuid = ContactOf(c), !.schema_data_uuid = SubmissionOf(c)]

\* post_form_process_error reads the key fields only
ErrorReq(s, d) ==
    [NoReq EXCEPT !.op = "error", !.schedule_id = s,
         !.day = d[1], !.month = d[2], !.year = d[3]]

\* a request with one fault each: a referential mismatch, a date that is no
\* calendar date, a time that is no slot start, a malformed time
FaultyBefore(k) ==
    { BeforeReq(k, ids, GoodDate, 36000) : ids \in BadIds }
    \cup { BeforeReq(k, <<"ss1", "s1", "v1", "m1">>, BadDate, 36000),
           BeforeReq(k, <<"ss1", "s1", "v1", "m1">>, GoodDate, OffTime),
           BeforeReq(k, <<"ss1", "s1", "v1", "m1">>, GoodDate, BadTime) }

FaultyAfter(c, k) ==
    { AfterReq(c, k, <<"ss1", "s1", "v2", "m1">>, GoodDate, 36000),
      AfterReq(c, k, <<"ss1", "s1", "v1", "m1">>, GoodDate, OffTime),
      AfterReq(c, k, <<"ss1", "s1", "v1", "m1">>, GoodDate, BadTime) }

\* the begin requests of a client: c1 sends well-formed requests with its own
\* key, c2 sends those, the faulty ones, and either key
BeforeReqs(c) ==
    UNION { { BeforeReq(k, ids, GoodDate, t) : ids \in GoodIds, t \in SlotTimes }
            \cup (IF c = "c1" THEN {} ELSE FaultyBefore(k))
          : k \in KeysOf(c) }

\* the commit requests of a client
AfterReqs(c) ==
    UNION { { AfterReq(c, k, ids, GoodDate, t) : ids \in GoodIds, t \in SlotTimes }
            \cup (IF c = "c1" THEN {} ELSE FaultyAfter(c, k))
          : k \in KeysOf(c) }

ErrorReqs == { ErrorReq(s, GoodDate) : s \in ScheduleIds }

KeyOf(r) == <<r.schedule_id, r.day, r.month, r.year>>
DateOf(r) == <<r.day, r.month, r.year>>

(***************************************************************************)
(* Results: Ok(()) or the error's message.                                 *)
(***************************************************************************)
Ok == "Ok"
Pending == "pending"
ErrStore == "store request failed"
ErrService == "Service ID does not match schedule"
ErrSchedule == "Schedule ID does not match staff schedule"
ErrStaff == "Staff ID does not match staff schedule"
ErrProcessing == "Form already being processed"
ErrDate == "Time Error: component out of range"
ErrTimeParse == "Time Parse Error"
ErrTimeNotFound == "Time not found"
ErrBooked == "Time is already booked"
ErrNotFound == "Process not found"
ErrClientKey == "Client key does not match"
ErrFrequency == "Invalid frequency"

\* error.rs: the variant of Error that `?` converts a failure into
error_variant(r) ==
    IF r = ErrTimeParse THEN "Time Parse Error"
    ELSE IF r = ErrDate THEN "Time Error"
    ELSE "Eyre Error"

INTERNAL_SERVER_ERROR == 500

\* Error::into_response: the status, and the envelope's error text, which is
\* the variant's prefix followed by the message
into_response(r) ==
    [status |-> INTERNAL_SERVER_ERROR, error |-> <<error_variant(r), r>>]

VARIABLES
    PROCESSING_FORMS,   \* the lock table: key -> client key
    mutex,              \* the client whose handler holds the table's Mutex
    bookings,           \* rows of the store's "bookings" collection, in import order
    pc,                 \* where each client's handler is suspended
    req,                \* each client's current (or last) request
    res,                \* the result of each client's last call
    fresh,              \* this begin was sent while its key was free, and no commit
                        \* or abort has removed the key since
    later,              \* this begin was sent while its key was held, and no commit
                        \* or abort for the key has been sent or has acted since
    began,              \* the begin request behind each held key, kept until the
                        \* commit that removes the key has returned
    calls,              \* number of calls sent
    \* get_available_days / gather_available_days
    query,              \* the day-list request: [year, month]
    staff_schedule_items, \* the staffSchedule rows the store answered with
    dpc,                \* where the day-list computation stands
    item,               \* index of the row the for loop is at
    pos,                \* the walk's position, seconds since the Unix epoch
    found,              \* the instants the walk has collected for this row
    available_days,     \* the entries pushed so far
    days_result,        \* Ok or the error the request returns
    \* get_available_hours / gather_available_hours on one schedule
    hours_args,         \* the rows the hour-list computation is given
    hpc,                \* where the hour-list computation stands
    available_hours,    \* the slots it returns
    time_pos            \* current_time_pos of the slot loop, run pass by pass

formVars == <<PROCESSING_FORMS, mutex, bookings, pc, req, res, fresh, later, began, calls>>
daysVars == <<query, staff_schedule_items, dpc, item, pos, found, available_days, days_result>>
hoursVars == <<hours_args, hpc, available_hours, time_pos>>
vars == <<formVars, daysVars, hoursVars>>

\* a booking the store may already hold when the process starts
PriorBooking ==
    [bookDate |-> [date |-> GoodDate, time |-> 36000], duration |-> 45,
     service |-> "v1", staffMember |-> "m1",
     contactUuid |-> "ct0", schemaDataUuid |-> "sd0"]

\* no reservation call has been sent
FormsIdle ==
    /\ PROCESSING_FORMS = << >>
    /\ mutex = NoClient
    /\ began = << >>
    /\ pc = [c \in Clients |-> "idle"]
    /\ req = [c \in Clients |-> NoReq]
    /\ res = [c \in Clients |-> Pending]
    /\ fresh = [c \in Clients |-> FALSE]
    /\ later = [c \in Clients |-> FALSE]
    /\ calls = 0

\* no day-list request is being computed
DaysIdle ==
    /\ query = [year |-> 0, month |-> 0]
    /\ staff_schedule_items = << >>
    /\ dpc = "idle"
    /\ item = 0
    /\ pos = 0
    /\ found = << >>
    /\ available_days = << >>
    /\ days_result = Pending

\* no hour-list request is being computed
HoursIdle ==
    /\ hours_args = << >>
    /\ hpc = "idle"
    /\ available_hours = << >>
    /\ time_pos = assume_offset(0, 0)

Init ==
    /\ FormsIdle
    /\ bookings \in { << >>, <<PriorBooking>> }
    /\ DaysIdle
    /\ HoursIdle

\* HashMap::contains_key / remove / insert
contains_key_never(m, k) == FALSE
contains_key_any(m, k) == DOMAIN m # {}
contains_key(m, k) == k \in DOMAIN m
MapRemove_clear(m, k) == << >>
MapRemove(m, k) == [x \in (DOMAIN m) \ {k} |-> m[x]]
MapInsert(m, k, v) == [x \in (DOMAIN m) \cup {k} |-> IF x = k THEN v ELSE m[x]]

\* the handler of c returns r
Return(c, r) ==
    /\ pc' = [pc EXCEPT ![c] = "idle"]
    /\ res' = [res EXCEPT ![c] = r]

Send(c, r, at) ==
    /\ pc[c] = "idle"
    /\ calls < MaxCalls
    /\ calls' = calls + 1
    /\ req' = [req EXCEPT ![c] = r]
    /\ res' = [res EXCEPT ![c] = Pending]
    /\ pc' = [pc EXCEPT ![c] = at]

\* a commit or abort for key k is sent or acts
Forget(k) ==
    later' = [x \in Clients |->
                 IF req[x].op = "before" /\ KeyOf(req[x]) = k
                 THEN FALSE ELSE later[x]]

\* a commit or abort removes key k
Disturb(c, k) ==
    /\ fresh' = [x \in Clients |->
                    IF x # c /\ req[x].op = "before" /\ KeyOf(req[x]) = k
                    THEN FALSE ELSE fresh[x]]
    /\ Forget(k)

\* the commits and aborts for key k that have been sent and have not returned
Releasing(k) ==
    { x \in Clients : pc[x] # "idle" /\ req[x].op \in {"after", "error"}
                                     /\ KeyOf(req[x]) = k }

InFlightCommits == { c \in Clients : pc[c] \in {"after_lock", "after_schedule", "after_import"} }

(***************************************************************************)
(* post_form_process_before (begin)                                        *)
(***************************************************************************)
post_form_process_before_call(c) ==
    \E r \in BeforeReqs(c) :
        /\ Send(c, r, "before_schedule")
        /\ fresh' = [fresh EXCEPT ![c] = KeyOf(r) \notin DOMAIN PROCESSING_FORMS]
        /\ later' = [later EXCEPT ![c] = /\ KeyOf(r) \in DOMAIN PROCESSING_FORMS
                                          /\ Releasing(KeyOf(r)) = {}]
        /\ UNCHANGED <<PROCESSING_FORMS, began, mutex, bookings>>
        /\ UNCHANGED <<daysVars, hoursVars>>

\* get_cms_row_by_id("schedule", schedule_id).await?
before_schedule(c, store_ok) ==
    /\ pc[c] = "before_schedule"
    /\ IF store_ok
       THEN /\ pc' = [pc EXCEPT ![c] = "before_staff_schedule"]
            /\ UNCHANGED res
       ELSE Return(c, ErrStore)
    /\ UNCHANGED <<PROCESSING_FORMS, began, mutex, bookings, req, fresh, later, calls>>
    /\ UNCHANGED <<daysVars, hoursVars>>

validate_no_staff(r, schedule, staff_schedule) ==
    IF schedule.service # r.service_id THEN ErrService
    ELSE IF staff_schedule.schedule # r.schedule_id THEN ErrSchedule
    ELSE Ok

\* the three referential validations, in the order of the code
validate(r, schedule, staff_schedule) ==
    IF schedule.service # r.service_id THEN ErrService
    ELSE IF staff_schedule.schedule # r.schedule_id THEN ErrSchedule
    ELSE IF staff_schedule.staff # r.staff_id THEN ErrStaff
    ELSE Ok

\* get_cms_row_by_id("staffSchedule", staff_schedule_id).await?, then the validations
before_staff_schedule(c, store_ok) ==
    /\ pc[c] = "before_staff_schedule"
    /\ IF ~store_ok
       THEN Return(c, ErrStore)
       ELSE LET v == validate(req[c], ScheduleRow(req[c].schedule_id),
                              StaffScheduleRow(req[c].staff_schedule_id))
            IN IF v # Ok
               THEN Return(c, v)
               ELSE /\ pc' = [pc EXCEPT ![c] = "before_lock"]
                    /\ UNCHANGED res
    /\ UNCHANGED <<PROCESSING_FORMS, began, mutex, bookings, req, fresh, later, calls>>
    /\ UNCHANGED <<daysVars, hoursVars>>

before_lock_unguarded(c) ==
    /\ pc[c] = "before_lock"
    /\ IF contains_key(PROCESSING_FORMS, KeyOf(req[c]))
       THEN /\ Return(c, ErrProcessing)
            /\ UNCHANGED mutex
       ELSE /\ mutex' = c
            /\ pc' = [pc EXCEPT ![c] = "before_bookings"]
            /\ UNCHANGED res
    /\ UNCHANGED <<PROCESSING_FORMS, began, bookings, req, fresh, later, calls>>
    /\ UNCHANGED <<daysVars, hoursVars>>

\* PROCESSING_FORMS.lock().await, then the contains_key check
before_lock(c) ==
    /\ pc[c] = "before_lock"
    /\ mutex = NoClient
    /\ IF contains_key(PROCESSING_FORMS, KeyOf(req[c]))
       THEN /\ Return(c, ErrProcessing)
            /\ UNCHANGED mutex
       ELSE /\ mutex' = c
            /\ pc' = [pc EXCEPT ![c] = "before_bookings"]
            /\ UNCHANGED res
    /\ UNCHANGED <<PROCESSING_FORMS, began, bookings, req, fresh, later, calls>>
    /\ UNCHANGED <<daysVars, hoursVars>>

before_outcome_unchecked(r, rows) ==
    IF ~from_calendar_date_ok(r.year, r.month, r.day) THEN ErrDate
    ELSE IF ~TimeParseOk(r.time) THEN ErrTimeParse
    ELSE Ok

\* the rest of the handler once the bookings query has answered with rows
before_outcome(r, rows) ==
    IF ~from_calendar_date_ok(r.year, r.month, r.day) THEN ErrDate
    ELSE LET found_hours == gather_available_hours(ScheduleRow(r.schedule_id),
                                StaffScheduleRow(r.staff_schedule_id),
                                query_bookings(rows, DateOf(r)))
             hits == { i \in 1..Len(found_hours) : TimeOf(found_hours[i].start) = r.time }
         IN IF ~TimeParseOk(r.time) THEN ErrTimeParse
            ELSE IF hits = {} THEN ErrTimeNotFound
            ELSE LET found_hour == found_hours[CHOOSE i \in hits : \A j \in hits : i <= j]
                 IN IF found_hour.is_booked THEN ErrBooked ELSE Ok

before_insert_early(forms, r, out) ==
    IF out \in {Ok, ErrTimeNotFound, ErrBooked}
    THEN MapInsert(forms, KeyOf(r), r.client_key) ELSE forms

\* proc.insert(key, client_key) is reached on the Ok path only
before_insert(forms, r, out) ==
    IF out = Ok THEN MapInsert(forms, KeyOf(r), r.client_key) ELSE forms

before_bookings_keeps_guard(c, store_ok) ==
    /\ pc[c] = "before_bookings"
    /\ mutex = c
    /\ LET out == IF store_ok THEN before_outcome(req[c], bookings) ELSE ErrStore
       IN /\ Return(c, out)
          /\ PROCESSING_FORMS' = before_insert(PROCESSING_FORMS, req[c], out)
          /\ began' = IF out = Ok THEN MapInsert(began, KeyOf(req[c]), req[c]) ELSE began
    /\ mutex' = IF store_ok THEN NoClient ELSE c
    /\ UNCHANGED <<bookings, req, fresh, later, calls>>
    /\ UNCHANGED <<daysVars, hoursVars>>

\* query_cms_rows("bookings").await? under the lock, then the slot check and insert
before_bookings(c, store_ok) ==
    /\ pc[c] = "before_bookings"
    /\ mutex = c
    /\ LET out == IF store_ok THEN before_outcome(req[c], bookings) ELSE ErrStore
       IN /\ Return(c, out)
          /\ PROCESSING_FORMS' = before_insert(PROCESSING_FORMS, req[c], out)
          /\ began' = IF out = Ok THEN MapInsert(began, KeyOf(req[c]), req[c]) ELSE began
    /\ mutex' = NoClient
    /\ UNCHANGED <<bookings, req, fresh, later, calls>>
    /\ UNCHANGED <<daysVars, hoursVars>>

(***************************************************************************)
(* post_form_process_error (abort)                                         *)
(***************************************************************************)
post_form_process_error_call(c) ==
    \E r \in ErrorReqs :
        /\ Send(c, r, "error_lock")
        /\ Forget(KeyOf(r))
        /\ UNCHANGED <<PROCESSING_FORMS, began, mutex, bookings, fresh>>
        /\ UNCHANGED <<daysVars, hoursVars>>

error_lock_strict(c) ==
    /\ pc[c] = "error_lock"
    /\ mutex = NoClient
    /\ PROCESSING_FORMS' = MapRemove(PROCESSING_FORMS, KeyOf(req[c]))
    /\ began' = MapRemove(began, KeyOf(req[c]))
    /\ Return(c, IF KeyOf(req[c]) \in DOMAIN PROCESSING_FORMS THEN Ok ELSE ErrNotFound)
    /\ Disturb(c, KeyOf(req[c]))
    /\ UNCHANGED <<mutex, bookings, req, calls>>
    /\ UNCHANGED <<daysVars, hoursVars>>

\* PROCESSING_FORMS.lock().await.remove(&key)
error_lock(c) ==
    /\ pc[c] = "error_lock"
    /\ mutex = NoClient
    /\ PROCESSING_FORMS' = MapRemove(PROCESSING_FORMS, KeyOf(req[c]))
    /\ began' = MapRemove(began, KeyOf(req[c]))
    /\ Return(c, Ok)
    /\ Disturb(c, KeyOf(req[c]))
    /\ UNCHANGED <<mutex, bookings, req, calls>>
    /\ UNCHANGED <<daysVars, hoursVars>>

(***************************************************************************)
(* post_form_process_after (commit)                                        *)
(***************************************************************************)
post_form_process_after_call(c) ==
    \E r \in AfterReqs(c) :
        /\ Len(bookings) + Cardinality(InFlightCommits) < MaxBookings
        /\ Send(c, r, "after_lock")
        /\ Forget(KeyOf(r))
        /\ UNCHANGED <<PROCESSING_FORMS, began, mutex, bookings, fresh>>
        /\ UNCHANGED <<daysVars, hoursVars>>

\* PROCESSING_FORMS.lock().await
after_lock(c) ==
    /\ pc[c] = "after_lock"
    /\ mutex = NoClient
    /\ mutex' = c
    /\ pc' = [pc EXCEPT ![c] = "after_schedule"]
    /\ UNCHANGED <<PROCESSING_FORMS, began, bookings, req, res, fresh, later, calls>>
    /\ UNCHANGED <<daysVars, hoursVars>>

after_outcome_any_key(r, forms) ==
    IF KeyOf(r) \notin DOMAIN forms THEN ErrNotFound
    ELSE IF ~TimeParseOk(r.time) THEN ErrTimeParse
    ELSE IF ~from_calendar_date_ok(r.year, r.month, r.day) THEN ErrDate
    ELSE Ok

after_outcome_no_entry(r, forms) ==
    IF KeyOf(r) \in DOMAIN forms /\ forms[KeyOf(r)] # r.client_key THEN ErrClientKey
    ELSE IF ~TimeParseOk(r.time) THEN ErrTimeParse
    ELSE IF ~from_calendar_date_ok(r.year, r.month, r.day) THEN ErrDate
    ELSE Ok

\* what the handler does between the schedule fetch and the import
after_outcome(r, forms) ==
    IF KeyOf(r) \notin DOMAIN forms THEN ErrNotFound
    ELSE IF forms[KeyOf(r)] # r.client_key THEN ErrClientKey
    ELSE IF ~TimeParseOk(r.time) THEN ErrTimeParse
    ELSE IF ~from_calendar_date_ok(r.year, r.month, r.day) THEN ErrDate
    ELSE Ok

after_fetch_failed_released(forms, r) == MapRemove(forms, KeyOf(r))

\* the schedule fetch (or its duration field) fails: the handler returns before
\* it reaches proc.remove
after_fetch_failed(forms, r) == forms

after_remove_if_match(forms, r) ==
    IF KeyOf(r) \in DOMAIN forms /\ forms[KeyOf(r)] = r.client_key
    THEN MapRemove(forms, KeyOf(r)) ELSE forms

\* proc.remove(&key), which comes before the client key is compared
after_remove(forms, r) == MapRemove(forms, KeyOf(r))

\* get_cms_row_by_id("schedule").await? under the lock, then remove and the checks
after_schedule(c, store_ok) ==
    /\ pc[c] = "after_schedule"
    /\ mutex = c
    /\ IF ~store_ok
       THEN /\ Return(c, ErrStore)
            /\ mutex' = NoClient
            /\ PROCESSING_FORMS' = after_fetch_failed(PROCESSING_FORMS, req[c])
            /\ UNCHANGED <<began, fresh, later>>
       ELSE LET out == after_outcome(req[c], PROCESSING_FORMS)
            IN /\ PROCESSING_FORMS' = after_remove(PROCESSING_FORMS, req[c])
               /\ began' = IF out = Ok THEN began ELSE MapRemove(began, KeyOf(req[c]))
               /\ Disturb(c, KeyOf(req[c]))
               /\ IF out = Ok
                  THEN /\ pc' = [pc EXCEPT ![c] = "after_import"]
                       /\ UNCHANGED <<res, mutex>>
                  ELSE /\ Return(c, out)
                       /\ mutex' = NoClient
    /\ UNCHANGED <<bookings, req, calls>>
    /\ UNCHANGED <<daysVars, hoursVars>>

booking_row_swapped(r) ==
    [bookDate |-> [date |-> DateOf(r), time |-> r.time],
     duration |-> ScheduleRow(r.schedule_id).duration,
     service |-> r.staff_id,
     staffMember |-> r.service_id,
     contactUuid |-> r.contact_uuid,
     schemaDataUuid |-> r.schema_data_uuid]

\* the row import_data_row is given
booking_row(r) ==
    [bookDate |-> [date |-> DateOf(r), time |-> r.time],
     duration |-> ScheduleRow(r.schedule_id).duration,
     service |-> r.service_id,
     staffMember |-> r.staff_id,
     contactUuid |-> r.contact_uuid,
     schemaDataUuid |-> r.schema_data_uuid]

after_import_writes_on_failure(c, store_ok) ==
    /\ pc[c] = "after_import"
    /\ mutex = c
    /\ bookings' = Append(bookings, booking_row(req[c]))
    /\ Return(c, IF store_ok THEN Ok ELSE ErrStore)
    /\ began' = MapRemove(began, KeyOf(req[c]))
    /\ mutex' = NoClient
    /\ UNCHANGED <<PROCESSING_FORMS, req, fresh, later, calls>>
    /\ UNCHANGED <<daysVars, hoursVars>>

\* import_data_row("bookings", ...).await? under the lock
after_import(c, store_ok) ==
    /\ pc[c] = "after_import"
    /\ mutex = c
    /\ IF store_ok
       THEN /\ bookings' = Append(bookings, booking_row(req[c]))
            /\ Return(c, Ok)
       ELSE /\ Return(c, ErrStore)
            /\ UNCHANGED bookings
    /\ began' = MapRemove(began, KeyOf(req[c]))
    /\ mutex' = NoClient
    /\ UNCHANGED <<PROCESSING_FORMS, req, fresh, later, calls>>
    /\ UNCHANGED <<daysVars, hoursVars>>

Next ==
    \/ \E c \in Clients : post_form_process_before_call(c)
    \/ \E c \in Clients, store_ok \in BOOLEAN : before_schedule(c, store_ok)
    \/ \E c \in Clients, store_ok \in BOOLEAN : before_staff_schedule(c, store_ok)
    \/ \E c \in Clients : before_lock(c)
    \/ \E c \in Clients, store_ok \in BOOLEAN : before_bookings(c, store_ok)
    \/ \E c \in Clients : post_form_process_error_call(c)
    \/ \E c \in Clients : error_lock(c)
    \/ \E c \in Clients : post_form_process_after_call(c)
    \/ \E c \in Clients : after_lock(c)
    \/ \E c \in Clients, store_ok \in BOOLEAN : after_schedule(c, store_ok)
    \/ \E c \in Clients, store_ok \in BOOLEAN : after_import(c, store_ok)

Spec == Init /\ [][Next]_vars

\* a step of the handler of c: the runtime polls it, and the store call or
\* the lock it is suspended on completes
HandlerStep(c) ==
    \/ \E store_ok \in BOOLEAN : before_schedule(c, store_ok)
    \/ \E store_ok \in BOOLEAN : before_staff_schedule(c, store_ok)
    \/ before_lock(c)
    \/ \E store_ok \in BOOLEAN : before_bookings(c, store_ok)
    \/ error_lock(c)
    \/ after_lock(c)
    \/ \E store_ok \in BOOLEAN : after_schedule(c, store_ok)
    \/ \E store_ok \in BOOLEAN : after_import(c, store_ok)

\* the calls of the fair runs: all on schedule s1, for 10:00:00 or with a
\* malformed time, with matching or mismatching identifiers and either key
FairRequest(r) == r.schedule_id = "s1" /\ r.time \in {36000, BadTime}

FairNext == Next /\ \A c \in Clients : (req'[c] # req[c] => FairRequest(req'[c]))

\* every store call returns and every runnable handler is run; clients are
\* not obliged to send calls
FairSpec == Init /\ [][FairNext]_vars /\ \A c \in Clients : WF_vars(HandlerStep(c))

(***************************************************************************)
(* get_available_days and gather_available_days: the day list of a month.  *)
(***************************************************************************)
\* a row of the "staffSchedule" collection as the day list reads it
StaffScheduleItem(id, startDay, window, frequency, tz) ==
    [id |-> id, startDay |-> startDay, start |-> window[1], end |-> window[2],
     recurrenceRule |-> [days |-> << >>, frequency |-> frequency, interval |-> 1],
     timeZone |-> tz]

\* start days: the first Monday of December 2024, the Monday before it, the
\* last day of November, and a day some weeks earlier
StartDays == { <<2024, 12, 2>>, <<2024, 11, 25>>, <<2024, 11, 30>>, <<2024, 10, 15>> }
\* 10:00:00 - 18:00:00 and 18:00:00 - 22:00:00
Windows == { <<36000, 64800>>, <<64800, 79200>> }
Frequencies == { "DAILY", "WEEKLY", "MONTHLY", "YEARLY", "HOURLY" }
TimeZones == { "America/Los_Angeles", "Asia/Tokyo" }

DayItems ==
    { StaffScheduleItem("ss1", d, w, f, z) :
        d \in StartDays, w \in Windows, f \in Frequencies, z \in TimeZones }

\* the second row of a two-row answer: one that repeats weekly, one whose
\* frequency is no frequency
SecondItems ==
    { StaffScheduleItem("ss2", <<2024, 12, 2>>, <<36000, 64800>>, f, "Asia/Tokyo") :
        f \in { "WEEKLY", "HOURLY" } }

\* the same row under another id, with interval 2 and two named days
OtherInterval(row) ==
    [row EXCEPT !.id = "ss2", !.recurrenceRule.interval = 2,
                !.recurrenceRule.days = <<"MO", "WE">>]

\* two-row answers whose rows differ in id, interval and days alone
IntervalLists ==
    { <<a, OtherInterval(a)>> :
        a \in { x \in DayItems : x.startDay \in { <<2024, 12, 2>>, <<2024, 11, 25>> }
                                  /\ x.timeZone = "America/Los_Angeles"
                                  /\ x.start = 36000
                                  /\ x.recurrenceRule.frequency \in {"WEEKLY", "MONTHLY"} } }

ItemLists ==
    { <<a>> : a \in DayItems }
    \cup IntervalLists
    \cup { <<a, b>> : a \in { x \in DayItems : x.startDay = <<2024, 12, 2>>
                                              /\ x.timeZone = "America/Los_Angeles"
                                              /\ x.start = 36000
                                              /\ x.recurrenceRule.frequency \in {"WEEKLY", "HOURLY"} },
                      b \in SecondItems }

\* the (year, month) a client asks for; 13 is no month
DayQueries == [year : 2023..2025, month : {1, 2, 12, 13}]

\* the server waits for a day-list request
DaysInit ==
    /\ FormsIdle
    /\ bookings = << >>
    /\ HoursIdle
    /\ query = [year |-> 0, month |-> 0]
    /\ staff_schedule_items = << >>
    /\ dpc = "ready"
    /\ item = 0
    /\ pos = 0
    /\ found = << >>
    /\ available_days = << >>
    /\ days_result = Pending

\* a day-list request arrives; rows are what the store will answer with
get_available_days_call ==
    /\ dpc = "ready"
    /\ query' \in DayQueries
    /\ staff_schedule_items' \in ItemLists
    /\ dpc' = "query"
    /\ UNCHANGED <<item, pos, found, available_days, days_result>>
    /\ UNCHANGED <<formVars, hoursVars>>

frequency_str_to_duration_calendar(frequency) ==
    IF frequency = "DAILY" THEN SecondsPerDay
    ELSE IF frequency = "WEEKLY" THEN 7 * SecondsPerDay
    ELSE IF frequency = "MONTHLY" THEN 30 * SecondsPerDay
    ELSE IF frequency = "YEARLY" THEN 365 * SecondsPerDay
    ELSE 0

\* Duration::days(1), weeks(1), weeks(4), weeks(52) in seconds; 0 stands for
\* the error "Invalid frequency"
frequency_str_to_duration(frequency) ==
    IF frequency = "DAILY" THEN SecondsPerDay
    ELSE IF frequency = "WEEKLY" THEN 7 * SecondsPerDay
    ELSE IF frequency = "MONTHLY" THEN 4 * 7 * SecondsPerDay
    ELSE IF frequency = "YEARLY" THEN 52 * 7 * SecondsPerDay
    ELSE 0

\* Date::from_calendar_date(year, month, 1)?.midnight(), read as a UTC instant
lookup_time_of(q) == instant_of(<<q.year, q.month, 1>>, 0, 0)

\* curr_dt: the row's first start, converted to UTC
curr_dt_of(row) ==
    instant_of(row.startDay, row.start, find_offset_by_id(row.timeZone))

\* get_available_days up to the call of gather_available_days
days_query(store_ok) ==
    /\ dpc = "query"
    /\ IF ~from_calendar_date_ok(query.year, query.month, 1)
       THEN /\ days_result' = ErrDate
            /\ dpc' = "done"
            /\ UNCHANGED item
       ELSE IF ~store_ok
       THEN /\ days_result' = ErrStore
            /\ dpc' = "done"
            /\ UNCHANGED item
       ELSE /\ dpc' = "item"
            /\ item' = 1
            /\ UNCHANGED days_result
    /\ UNCHANGED <<query, staff_schedule_items, pos, found, available_days>>
    /\ UNCHANGED <<formVars, hoursVars>>

\* the head of the for loop: the row's fields are read and the walk is set up
days_item ==
    /\ dpc = "item"
    /\ IF item > Len(staff_schedule_items)
       THEN /\ days_result' = Ok
            /\ dpc' = "done"
            /\ UNCHANGED <<pos, found>>
       ELSE LET row == staff_schedule_items[item]
            IN IF frequency_str_to_duration(row.recurrenceRule.frequency) = 0
               THEN /\ days_result' = ErrFrequency
                    /\ dpc' = "done"
                    /\ UNCHANGED <<pos, found>>
               ELSE /\ pos' = curr_dt_of(row)
                    /\ found' = << >>
                    /\ dpc' = "walk"
                    /\ UNCHANGED days_result
    /\ UNCHANGED <<query, staff_schedule_items, item, available_days>>
    /\ UNCHANGED <<formVars, hoursVars>>

walk_branch_six(p, fnd, lookup_time) ==
    IF month_at(lookup_time, 0) = month_at(p, 0)
    THEN (IF Len(fnd) + 1 = 6 THEN "push_break" ELSE "push")
    ELSE IF p > lookup_time THEN "break"
    ELSE IF fnd = << >> THEN "continue"
    ELSE "break"

\* the branch one iteration of the loop takes once pos has been advanced to p
walk_branch(p, fnd, lookup_time) ==
    IF month_at(lookup_time, 0) = month_at(p, 0)
    THEN (IF Len(fnd) + 1 = 5 THEN "push_break" ELSE "push")
    ELSE IF p > lookup_time THEN "break"
    ELSE IF fnd = << >> THEN "continue"
    ELSE "break"

walk_step_interval ==
    /\ dpc = "walk"
    /\ LET row == staff_schedule_items[item]
           freq == frequency_str_to_duration(row.recurrenceRule.frequency)
                       * row.recurrenceRule.interval
           p == saturating_add(pos, freq)
           branch == walk_branch(p, found, lookup_time_of(query))
       IN /\ pos' = p
          /\ found' = IF branch \in {"push", "push_break"} THEN Append(found, p) ELSE found
          /\ dpc' = IF branch \in {"push_break", "break"} THEN "emit" ELSE "walk"
    /\ UNCHANGED <<query, staff_schedule_items, item, available_days, days_result>>
    /\ UNCHANGED <<formVars, hoursVars>>

\* one iteration of the loop
walk_step ==
    /\ dpc = "walk"
    /\ LET row == staff_schedule_items[item]
           freq == frequency_str_to_duration(row.recurrenceRule.frequency)
           p == saturating_add(pos, freq)
           branch == walk_branch(p, found, lookup_time_of(query))
       IN /\ pos' = p
          /\ found' = IF branch \in {"push", "push_break"} THEN Append(found, p) ELSE found
          /\ dpc' = IF branch \in {"push_break", "break"} THEN "emit" ELSE "walk"
    /\ UNCHANGED <<query, staff_schedule_items, item, available_days, days_result>>
    /\ UNCHANGED <<formVars, hoursVars>>

\* the entry pushed for one found instant
day_entry(row, utc) ==
    LET local_offset == find_offset_by_id(row.timeZone)
        time_distance == row.end - row.start
    IN [staffScheduleId |-> row.id,
        timeZone |-> row.timeZone,
        utc |-> utc,
        start |-> [dateUtc |-> date_at(utc, 0), timeUtc |-> time_at(utc, 0),
                   dateLocal |-> date_at(utc, local_offset), timeLocal |-> row.start],
        end |-> [dateUtc |-> date_at(utc + time_distance, 0),
                 timeUtc |-> TimeAdd(time_at(utc, 0), time_distance),
                 dateLocal |-> date_at(utc + time_distance, local_offset),
                 timeLocal |-> row.end],
        monthUtc |-> month_at(utc, 0), dayUtc |-> day_at(utc, 0),
        monthLocal |-> month_at(utc, local_offset), dayLocal |-> day_at(utc, local_offset)]

\* the second loop: every found instant becomes an entry, then the next row
days_emit ==
    /\ dpc = "emit"
    /\ available_days' = available_days \o
           [i \in 1..Len(found) |-> day_entry(staff_schedule_items[item], found[i])]
    /\ item' = item + 1
    /\ dpc' = "item"
    /\ UNCHANGED <<query, staff_schedule_items, pos, found, days_result>>
    /\ UNCHANGED <<formVars, hoursVars>>

\* what get_available_days answers: the list, or the error alone
days_response ==
    IF days_result = Ok THEN [available |-> available_days] ELSE [error |-> days_result]

DaysNext ==
    \/ get_available_days_call
    \/ \E store_ok \in BOOLEAN : days_query(store_ok)
    \/ days_item
    \/ walk_step
    \/ days_emit

DaysSpec == DaysInit /\ [][DaysNext]_vars

\* the loop is not suspended anywhere: a computation that can step does step
DaysFairSpec == DaysSpec /\ WF_vars(DaysNext)

(***************************************************************************)
(* get_available_hours on rows of any duration, break and working window.  *)
(***************************************************************************)
\* schedules: duration 45 minutes, 60 minutes or 15 hours, break 0 or 15 minutes
HourSchedules ==
    { [id |-> "s1", service |-> "v1", duration |-> d, break |-> b] :
        d \in {45, 60, 900}, b \in {0, 15} }

\* working windows: 10:00 - 12:00, 10:00 - 12:15, 10:00 - 18:00,
\* 21:00 - 22:30, 22:00 - 23:00 and 22:00 - 23:30
HourWindows ==
    { <<36000, 43200>>, <<36000, 44100>>, <<36000, 64800>>, <<75600, 81000>>,
      <<79200, 82800>>, <<79200, 84600>> }

HourStaffSchedules ==
    { [id |-> "ss1", schedule |-> "s1", staff |-> "m1",
       timeZone |-> "America/Los_Angeles", start |-> w[1], end |-> w[2]] :
        w \in HourWindows }

\* the stored bookings of the day: none, or one at 10:00, at 11:00 or at 22:00
HourBookings ==
    { << >> } \cup
    { << [bookDate |-> [date |-> GoodDate, time |-> t], duration |-> 45,
          service |-> "v1", staffMember |-> "m1",
          contactUuid |-> "ct0", schemaDataUuid |-> "sd0"] >> :
        t \in {36000, 39600, 79200} }

\* the server waits for an hour-list request
HoursInit ==
    /\ FormsIdle
    /\ bookings = << >>
    /\ DaysIdle
    /\ hours_args = << >>
    /\ hpc = "ready"
    /\ available_hours = << >>
    /\ time_pos = assume_offset(0, 0)

\* an hour-list request arrives; the rows are what the store will answer with
get_available_hours_call ==
    /\ hpc = "ready"
    /\ hours_args' \in [schedule : HourSchedules, staff_schedule : HourStaffSchedules,
                        bookings : HourBookings, date : {GoodDate}]
    /\ hpc' = "fetch"
    /\ UNCHANGED <<available_hours, time_pos>>
    /\ UNCHANGED <<formVars, daysVars>>

\* the rows are fetched and gather_available_hours is applied to them
hours_gather(store_ok) ==
    /\ hpc = "fetch"
    /\ IF store_ok
       THEN /\ available_hours' =
                   gather_available_hours(hours_args.schedule, hours_args.staff_schedule,
                       query_bookings(hours_args.bookings, hours_args.date))
            /\ hpc' = "done"
       ELSE /\ hpc' = "failed"
            /\ UNCHANGED available_hours
    /\ UNCHANGED <<hours_args, time_pos>>
    /\ UNCHANGED <<formVars, daysVars>>

HoursNext ==
    \/ get_available_hours_call
    \/ \E store_ok \in BOOLEAN : hours_gather(store_ok)

HoursSpec == HoursInit /\ [][HoursNext]_vars

(***************************************************************************)
(* The slot loop of gather_available_hours, one pass at a time.            *)
(***************************************************************************)
\* gather_available_hours is called: the fields are read and the cursor is set
hours_loop_call ==
    /\ hpc = "ready"
    /\ hours_args' \in [schedule : HourSchedules, staff_schedule : HourStaffSchedules,
                        bookings : HourBookings, date : {GoodDate}]
    /\ time_pos' = assume_offset(hours_args'.staff_schedule.start,
                                 find_offset_by_id(hours_args'.staff_schedule.timeZone))
    /\ hpc' = "loop"
    /\ UNCHANGED available_hours
    /\ UNCHANGED <<formVars, daysVars>>

\* OffsetDateTime + Duration panics when the sum is no date of the calendar
in_calendar(local) == local < (LastDay + 1) * SecondsPerDay

\* one test of the while condition and, if it holds, one pass of the body; of
\* a list longer than MaxSlots the model keeps the first MaxSlots slots
hours_loop_step ==
    /\ hpc = "loop"
    /\ LET schedule == hours_args.schedule
           staff_schedule == hours_args.staff_schedule
           duration == schedule.duration * SecondsPerMinute
           break_duration == schedule.break * SecondsPerMinute
           booked == booked_times(hours_args.bookings, time_pos.off)
           utc_time_pos == replace_offset(time_pos, 0)
           hour == [start |-> utc_time_pos,
                    end |-> [utc_time_pos EXCEPT !.local = @ + duration],
                    is_booked |-> is_booked(booked, time_pos, duration),
                    service_id |-> schedule.service,
                    schedule_id |-> schedule.id,
                    staff_id |-> staff_schedule.staff,
                    staff_schedule_id |-> staff_schedule.id]
       IN IF ~while_cond(time_pos, duration, break_duration, staff_schedule.end)
          THEN /\ hpc' = "done"
               /\ UNCHANGED <<available_hours, time_pos>>
          ELSE IF ~in_calendar(time_pos.local + duration + break_duration)
          THEN /\ hpc' = "panicked"
               /\ UNCHANGED <<available_hours, time_pos>>
          ELSE /\ available_hours' = IF Len(available_hours) < MaxSlots
                                     THEN Append(available_hours, hour)
                                     ELSE available_hours
               /\ time_pos' = [time_pos EXCEPT !.local = @ + duration + break_duration]
               /\ UNCHANGED hpc
    /\ UNCHANGED hours_args
    /\ UNCHANGED <<formVars, daysVars>>

HoursLoopNext ==
    \/ hours_loop_call
    \/ hours_loop_step

HoursLoopSpec == HoursInit /\ [][HoursLoopNext]_vars

\* the loop is not suspended anywhere: a pass that can be taken is taken
HoursLoopFairSpec == HoursLoopSpec /\ WF_vars(HoursLoopNext)

(***************************************************************************)
(* Vocabulary of the properties, stated without the handlers' operators.   *)
(***************************************************************************)
\* the request's ids are related in the store as the request says
ConsistentIds(r) ==
    /\ ScheduleRow(r.schedule_id).service = r.service_id
    /\ StaffScheduleRow(r.staff_schedule_id).schedule = r.schedule_id
    /\ StaffScheduleRow(r.staff_schedule_id).staff = r.staff_id

StepOf(r) ==
    (ScheduleRow(r.schedule_id).duration + ScheduleRow(r.schedule_id).break) * SecondsPerMinute
LengthOf(r) == ScheduleRow(r.schedule_id).duration * SecondsPerMinute
WindowOf(r) == StaffScheduleRow(r.staff_schedule_id)

\* the start times of the slots of the request's schedule
SlotStartsOf(r) ==
    { WindowOf(r).start + i * StepOf(r) :
        i \in 0..(((WindowOf(r).end - WindowOf(r).start) \div StepOf(r)) - 1) }

\* a stored booking of the request's day lies within [t, t + duration]
BookedAt(r, t, rows) ==
    \E i \in 1..Len(rows) :
        /\ rows[i].bookDate.date = DateOf(r)
        /\ rows[i].bookDate.time >= t
        /\ rows[i].bookDate.time <= t + LengthOf(r)

\* the request names a generated slot that the store shows free
FreeSlot(r, rows) ==
    /\ r.time \in SlotStartsOf(r)
    /\ ~BookedAt(r, r.time, rows)

IsDate(r) == r.month \in 1..12 /\ r.day \in 1..DaysInMonth(r.year, r.month)

\* client c takes a step of its handler
Steps(c) == pc'[c] # pc[c]
\* client c's handler returns in this step
Returns(c) == pc[c] # "idle" /\ pc'[c] = "idle"
Finished(c, op) == pc[c] = "idle" /\ req[c].op = op

(***************************************************************************)
(* C1: two begin calls for the same key, both well-formed and aimed at a   *)
(* free generated slot, sent while the key is free and with no commit or   *)
(* abort on the key in between: exactly one returns Ok and the other       *)
(* returns "Form already being processed".                                 *)
(***************************************************************************)
RacedBegin(c) ==
    /\ Finished(c, "before")
    /\ fresh[c]
    /\ ConsistentIds(req[c])
    /\ IsDate(req[c])
    /\ FreeSlot(req[c], bookings)
    /\ res[c] # ErrStore

C1_MutualExclusion ==
    \A a \in Clients, b \in Clients :
        (a # b /\ RacedBegin(a) /\ RacedBegin(b) /\ KeyOf(req[a]) = KeyOf(req[b]))
            => {res[a], res[b]} = {Ok, ErrProcessing}

C1_Witness ==
    \E a \in Clients, b \in Clients :
        /\ a # b /\ RacedBegin(a) /\ RacedBegin(b)
        /\ KeyOf(req[a]) = KeyOf(req[b])
        /\ res[a] = Ok /\ res[b] = ErrProcessing

(***************************************************************************)
(* C2: the store never holds two Booking rows for the same service, staff  *)
(* member, date and start time (no slot is booked twice).                  *)
(***************************************************************************)
C2_NoDoubleBooking ==
    \A i \in 1..Len(bookings), j \in 1..Len(bookings) :
        i < j => ~ /\ bookings[i].bookDate = bookings[j].bookDate
                   /\ bookings[i].service = bookings[j].service
                   /\ bookings[i].staffMember = bookings[j].staffMember

(***************************************************************************)
(* C3: a commit that finds its key held under a client key other than the  *)
(* one it supplies returns "Client key does not match" (once the store has *)
(* answered the schedule fetch) and writes no Booking row.                 *)
(***************************************************************************)
KeyMismatch(c) ==
    /\ pc[c] = "after_schedule"
    /\ KeyOf(req[c]) \in DOMAIN PROCESSING_FORMS
    /\ PROCESSING_FORMS[KeyOf(req[c])] # req[c].client_key

C3_TokenMismatch ==
    [][\A c \in Clients :
          (KeyMismatch(c) /\ Steps(c)) =>
              /\ Returns(c)
              /\ bookings' = bookings
              /\ res'[c] \in {ErrClientKey, ErrStore}
              /\ after_schedule(c, TRUE) => res'[c] = ErrClientKey]_vars

C3_Witness ==
    \E c \in Clients : Finished(c, "after") /\ res[c] = ErrClientKey

(***************************************************************************)
(* C4: a commit whose key has no entry in the lock table returns "Process  *)
(* not found" (once the store has answered the schedule fetch), writes no  *)
(* Booking row and leaves the lock table unchanged.                        *)
(***************************************************************************)
NoEntry(c) ==
    /\ pc[c] = "after_schedule"
    /\ KeyOf(req[c]) \notin DOMAIN PROCESSING_FORMS

C4_ProcessNotFound ==
    [][\A c \in Clients :
          (NoEntry(c) /\ Steps(c)) =>
              /\ Returns(c)
              /\ bookings' = bookings
              /\ PROCESSING_FORMS' = PROCESSING_FORMS
              /\ res'[c] \in {ErrNotFound, ErrStore}
              /\ after_schedule(c, TRUE) => res'[c] = ErrNotFound]_vars

C4_Witness ==
    \E c \in Clients : Finished(c, "after") /\ res[c] = ErrNotFound

(***************************************************************************)
(* C5: a commit returns Ok only if the lock table held its key under the   *)
(* client key it supplies; the entry is then removed and exactly one       *)
(* Booking row is appended, carrying the request's date and time, the      *)
(* schedule's duration and the request's service, staff, contact and       *)
(* submission ids.                                                         *)
(***************************************************************************)
C5_CommitSuccess ==
    [][\A c \in Clients :
          /\ (req[c].op = "after" /\ Steps(c) /\ pc'[c] = "after_import") =>
                /\ pc[c] = "after_schedule"
                /\ KeyOf(req[c]) \in DOMAIN PROCESSING_FORMS
                /\ PROCESSING_FORMS[KeyOf(req[c])] = req[c].client_key
                /\ KeyOf(req[c]) \notin DOMAIN PROCESSING_FORMS'
                /\ bookings' = bookings
          /\ (req[c].op = "after" /\ Returns(c) /\ res'[c] = Ok) =>
                /\ pc[c] = "after_import"
                /\ KeyOf(req[c]) \notin DOMAIN PROCESSING_FORMS'
                /\ Len(bookings') = Len(bookings) + 1
                /\ SubSeq(bookings', 1, Len(bookings)) = bookings
                /\ LET row == bookings'[Len(bookings')]
                   IN /\ row.bookDate.date = <<req[c].day, req[c].month, req[c].year>>
                      /\ row.bookDate.time = req[c].time
                      /\ row.duration = ScheduleRow(req[c].schedule_id).duration
                      /\ row.service = req[c].service_id
                      /\ row.staffMember = req[c].staff_id
                      /\ row.contactUuid = req[c].contact_uuid
                      /\ row.schemaDataUuid = req[c].schema_data_uuid]_vars

C5_Witness ==
    \E c \in Clients :
        /\ Finished(c, "after") /\ res[c] = Ok
        /\ Len(bookings) > 0
        /\ bookings[Len(bookings)].contactUuid = req[c].contact_uuid

(***************************************************************************)
(* C6: abort always returns Ok; it removes the entry of its key if there   *)
(* is one and changes nothing else, so an abort of a key that a previous   *)
(* abort has left absent leaves the lock table as it is.                   *)
(***************************************************************************)
C6_AbortIdempotent ==
    [][\A c \in Clients :
          (pc[c] = "error_lock" /\ Steps(c)) =>
              /\ Returns(c)
              /\ res'[c] = Ok
              /\ DOMAIN PROCESSING_FORMS' = (DOMAIN PROCESSING_FORMS) \ {KeyOf(req[c])}
              /\ \A k \in DOMAIN PROCESSING_FORMS' : PROCESSING_FORMS'[k] = PROCESSING_FORMS[k]
              /\ (KeyOf(req[c]) \notin DOMAIN PROCESSING_FORMS
                    => PROCESSING_FORMS' = PROCESSING_FORMS)
              /\ bookings' = bookings]_vars

\* two aborts of one key have returned
C6_Witness ==
    \E a \in Clients, b \in Clients :
        /\ a # b
        /\ Finished(a, "error") /\ Finished(b, "error")
        /\ KeyOf(req[a]) = KeyOf(req[b])
        /\ res[a] = Ok /\ res[b] = Ok

(***************************************************************************)
(* C7: round trip.  For a slot the hour list reports with isBooked false,  *)
(* a begin and then a commit with the same identifiers, date, time and     *)
(* client key both return Ok; afterwards the day-window query returns the  *)
(* Booking, the hour list reports that slot with isBooked true, and every  *)
(* other slot's flag is as it was.                                         *)
(***************************************************************************)
HoursOf(r, rows) == get_available_hours(r.staff_schedule_id, DateOf(r), rows)

ReportedFree(r, rows) ==
    \E i \in 1..Len(HoursOf(r, rows)) :
        /\ TimeOf(HoursOf(r, rows)[i].start) = r.time
        /\ ~HoursOf(r, rows)[i].is_booked

SameCall(r, b) ==
    /\ r.staff_schedule_id = b.staff_schedule_id /\ r.schedule_id = b.schedule_id
    /\ r.service_id = b.service_id /\ r.staff_id = b.staff_id
    /\ DateOf(r) = DateOf(b) /\ r.time = b.time /\ r.client_key = b.client_key

\* the begin of a free slot returns Ok, and so does the commit that repeats it
RoundTripSucceeds(c) ==
    /\ (before_bookings(c, TRUE) /\ ConsistentIds(req[c]) /\ IsDate(req[c])
            /\ ReportedFree(req[c], bookings))
          => res'[c] = Ok
    /\ (after_schedule(c, TRUE) /\ KeyOf(req[c]) \in DOMAIN began
            /\ SameCall(req[c], began[KeyOf(req[c])]))
          => pc'[c] = "after_import"
    /\ after_import(c, TRUE) => res'[c] = Ok

\* the commit that repeats the begin of a slot reported free writes the Booking
RoundTripCommit(c) ==
    /\ after_import(c, TRUE)
    /\ KeyOf(req[c]) \in DOMAIN began
    /\ SameCall(req[c], began[KeyOf(req[c])])
    /\ ReportedFree(req[c], bookings)

\* the Booking is visible in the store and in the hour list
RoundTripVisible(c) ==
    RoundTripCommit(c) =>
        LET old == HoursOf(req[c], bookings)
            new == HoursOf(req[c], bookings')
            day == query_bookings(bookings', DateOf(req[c]))
        IN /\ \E i \in 1..Len(day) :
                 /\ day[i].bookDate.time = req[c].time
                 /\ day[i].contactUuid = req[c].contact_uuid
           /\ Len(new) = Len(old)
           /\ \A i \in 1..Len(old) :
                 TimeOf(old[i].start) = req[c].time => new[i].is_booked

RoundTripOthersUnchanged(c) ==
    RoundTripCommit(c) =>
        LET old == HoursOf(req[c], bookings)
            new == HoursOf(req[c], bookings')
        IN \A i \in 1..Len(old) :
              TimeOf(old[i].start) # req[c].time => new[i].is_booked = old[i].is_booked

C7_RoundTrip ==
    [][\A c \in Clients :
          /\ RoundTripSucceeds(c)
          /\ RoundTripVisible(c)
          /\ RoundTripOthersUnchanged(c)]_vars

\* the part of C7 that the code satisfies
C7_RoundTripBookedSlot ==
    [][\A c \in Clients : RoundTripSucceeds(c) /\ RoundTripVisible(c)]_vars

(***************************************************************************)
(* C8: a begin that returns an error leaves the lock table exactly as it   *)
(* was; a begin changes the table only in the step in which it returns Ok. *)
(***************************************************************************)
C8_FailedBeginNoInsert ==
    [][\A c \in Clients :
          (req'[c].op = "before" /\ Steps(c) /\ ~(Returns(c) /\ res'[c] = Ok))
              => PROCESSING_FORMS' = PROCESSING_FORMS]_vars

\* a begin has failed on a key held under another client key, which is still there
C8_Witness ==
    \E c \in Clients :
        /\ Finished(c, "before")
        /\ res[c] = ErrProcessing
        /\ KeyOf(req[c]) \in DOMAIN PROCESSING_FORMS
        /\ PROCESSING_FORMS[KeyOf(req[c])] # req[c].client_key

(***************************************************************************)
(* C9: a begin whose service id is not the schedule row's service, whose   *)
(* schedule id is not the staff-schedule row's schedule, or whose staff id *)
(* is not the staff-schedule row's staff, fails with the validation error  *)
(* of the first such mismatch, and never reaches the lock table.           *)
(***************************************************************************)
MismatchError(r) ==
    IF ScheduleRow(r.schedule_id).service # r.service_id THEN ErrService
    ELSE IF StaffScheduleRow(r.staff_schedule_id).schedule # r.schedule_id THEN ErrSchedule
    ELSE ErrStaff

C9_ReferentialValidation ==
    [][\A c \in Clients :
          /\ (before_staff_schedule(c, TRUE) /\ ~ConsistentIds(req[c])) =>
                /\ Returns(c)
                /\ res'[c] = MismatchError(req[c])
                /\ PROCESSING_FORMS' = PROCESSING_FORMS
                /\ mutex' = mutex
          /\ (req'[c].op = "before" /\ ~ConsistentIds(req'[c])) =>
                /\ pc'[c] \notin {"before_lock", "before_bookings"}
                /\ mutex' # c]_vars

C9_Witness ==
    \E c \in Clients :
        /\ Finished(c, "before")
        /\ res[c] = ErrStaff
        /\ StaffScheduleRow(req[c].staff_schedule_id).staff # req[c].staff_id

(***************************************************************************)
(* C10: begin returns Ok only if the requested time is the start of a      *)
(* generated slot of that date and the slot is not booked; a begin that    *)
(* reaches the slot check with a time that is no slot start fails with     *)
(* "Time not found", and with the start of a booked slot it fails with     *)
(* "Time is already booked".                                               *)
(***************************************************************************)
C10_BeginChecksSlot ==
    [][\A c \in Clients :
          /\ (req[c].op = "before" /\ Returns(c) /\ res'[c] = Ok) =>
                FreeSlot(req[c], bookings)
          /\ (before_bookings(c, TRUE) /\ IsDate(req[c]) /\ TimeParseOk(req[c].time)) =>
                /\ req[c].time \notin SlotStartsOf(req[c]) => res'[c] = ErrTimeNotFound
                /\ (req[c].time \in SlotStartsOf(req[c])
                      /\ BookedAt(req[c], req[c].time, bookings)) => res'[c] = ErrBooked]_vars

\* one begin has failed on a booked slot and another on a time that is no slot
C10_Witness ==
    /\ \E c \in Clients : Finished(c, "before") /\ res[c] = ErrBooked
    /\ \E c \in Clients : Finished(c, "before") /\ res[c] = ErrTimeNotFound

(***************************************************************************)
(* C11: when a commit or an abort for key K returns, with success or with  *)
(* an error, K has no entry in the lock table.                             *)
(***************************************************************************)
C11_ReleaseUnconditional ==
    [][\A c \in Clients :
          (req[c].op \in {"after", "error"} /\ Returns(c))
              => KeyOf(req[c]) \notin DOMAIN PROCESSING_FORMS']_vars

\* the commit returns because its schedule fetch has failed
FetchFailed(c) == pc[c] = "after_schedule" /\ res'[c] = ErrStore

(* C11 as amended: when an abort for key K returns, or a commit for K       *)
(* returns otherwise than with the failure of its schedule fetch, K has no  *)
(* entry in the lock table.                                                 *)
C11_ReleaseAfterLookup ==
    [][\A c \in Clients :
          (req[c].op \in {"after", "error"} /\ Returns(c) /\ ~FetchFailed(c))
              => KeyOf(req[c]) \notin DOMAIN PROCESSING_FORMS']_vars

\* a commit that held the entry's client key has failed on its time, and the
\* entry is gone
C11_Witness ==
    \E c \in Clients :
        /\ Finished(c, "after")
        /\ res[c] = ErrTimeParse
        /\ KeyOf(req[c]) \notin DOMAIN PROCESSING_FORMS

(***************************************************************************)
(* C12: a commit that fails before the client key check (its schedule      *)
(* fetch fails) leaves the lock table as it is; a commit that fails the    *)
(* client key check has removed the entry.  With the entry gone, a begin   *)
(* for the key passes the lock check, and a commit for the key, whatever   *)
(* its client key, returns "Process not found".                            *)
(***************************************************************************)
C12_CommitFailureOrdering ==
    [][\A c \in Clients :
          /\ (Steps(c) /\ FetchFailed(c)) =>
                /\ Returns(c)
                /\ PROCESSING_FORMS' = PROCESSING_FORMS
          /\ (req[c].op = "after" /\ Returns(c) /\ res'[c] = ErrClientKey) =>
                /\ KeyOf(req[c]) \in DOMAIN PROCESSING_FORMS
                /\ PROCESSING_FORMS[KeyOf(req[c])] # req[c].client_key
                /\ KeyOf(req[c]) \notin DOMAIN PROCESSING_FORMS'
          /\ (before_lock(c) /\ KeyOf(req[c]) \notin DOMAIN PROCESSING_FORMS) =>
                pc'[c] = "before_bookings"
          /\ (after_schedule(c, TRUE) /\ KeyOf(req[c]) \notin DOMAIN PROCESSING_FORMS) =>
                res'[c] = ErrNotFound]_vars

\* after a commit with another client key has failed the check, the commit
\* with the holder's client key has returned "Process not found"
C12_Witness ==
    \E a \in Clients, b \in Clients :
        /\ Finished(a, "after") /\ res[a] = ErrClientKey
        /\ Finished(b, "after") /\ res[b] = ErrNotFound
        /\ KeyOf(req[a]) = KeyOf(req[b])
        /\ req[a].client_key # req[b].client_key

(***************************************************************************)
(* Vocabulary of the day-list properties.                                  *)
(***************************************************************************)
\* the step of a frequency in days, as the specification lists it
StepDays(frequency) ==
    IF frequency = "DAILY" THEN 1
    ELSE IF frequency = "WEEKLY" THEN 7
    ELSE IF frequency = "MONTHLY" THEN 28
    ELSE 364

ValidFrequencies == { "DAILY", "WEEKLY", "MONTHLY", "YEARLY" }
StepOfRow(row) == StepDays(row.recurrenceRule.frequency) * SecondsPerDay

\* the day list has been answered with a list
DaysAnswered == dpc = "done" /\ days_result = Ok

\* the entries of the answer that belong to row i
EntriesOf(i) ==
    SelectSeq(available_days, LAMBDA e : e.staffScheduleId = staff_schedule_items[i].id)

\* the requested month holds the instant, read in the zone of offset off
InTargetMonth(t, off) ==
    year_at(t, off) = query.year /\ month_at(t, off) = query.month

(***************************************************************************)
(* C13: for every row, the answer holds at most 5 occurrences, in strictly *)
(* increasing order, each one step of the row's frequency after the one    *)
(* before it.                                                              *)
(***************************************************************************)
C13_BoundedAscendingRun ==
    DaysAnswered =>
        \A i \in 1..Len(staff_schedule_items) :
            LET es == EntriesOf(i)
            IN /\ Len(es) <= 5
               /\ \A j \in 1..(Len(es) - 1) :
                     /\ es[j].utc < es[j + 1].utc
                     /\ es[j + 1].utc = es[j].utc + StepOfRow(staff_schedule_items[i])

\* an answer with the full five occurrences of a row
C13_Witness ==
    /\ DaysAnswered
    /\ \E i \in 1..Len(staff_schedule_items) : Len(EntriesOf(i)) = 5

(***************************************************************************)
(* C14: every occurrence of the answer lies, in the local time of its      *)
(* row's zone, in the requested year and month.                            *)
(***************************************************************************)
C14_LocalMonth ==
    DaysAnswered =>
        \A n \in 1..Len(available_days) :
            InTargetMonth(available_days[n].utc,
                          find_offset_by_id(available_days[n].timeZone))

(***************************************************************************)
(* C15: the walk of every row ends, wherever the row's start day lies with *)
(* respect to the requested month: every day-list request is answered.     *)
(***************************************************************************)
C15_WalkTerminates == <>(dpc = "done")

\* a daily row that starts months before the requested month has been walked
\* to it
C15_Witness ==
    /\ DaysAnswered
    /\ query = [year |-> 2025, month |-> 2]
    /\ staff_schedule_items[1].startDay = <<2024, 10, 15>>
    /\ staff_schedule_items[1].recurrenceRule.frequency = "DAILY"
    /\ Len(available_days) = 5

(***************************************************************************)
(* C16: a WEEKLY row that starts on 2024-12-02, asked for December 2024,   *)
(* yields the five occurrences of December 2, 9, 16, 23 and 30; whenever a *)
(* row's start day lies in the requested month, its first start is the     *)
(* first occurrence of the row.                                            *)
(***************************************************************************)
C16_AnchorFirst ==
    DaysAnswered =>
        \A i \in 1..Len(staff_schedule_items) :
            LET row == staff_schedule_items[i]
                es == EntriesOf(i)
            IN /\ (/\ row.recurrenceRule.frequency = "WEEKLY"
                   /\ row.startDay = <<2024, 12, 2>>
                   /\ query = [year |-> 2024, month |-> 12])
                      => [j \in 1..Len(es) |-> es[j].start.dateLocal[3]] = <<2, 9, 16, 23, 30>>
               /\ (row.startDay[1] = query.year /\ row.startDay[2] = query.month)
                      => (Len(es) >= 1 /\ es[1].utc = curr_dt_of(row))

(***************************************************************************)
(* C17: the answer holds every instant first start + k * step of a row     *)
(* whose local month is the requested month, for the first 5 such k.       *)
(***************************************************************************)
\* the first five in-month instants of the row's progression
FirstInMonth(row) ==
    LET off == find_offset_by_id(row.timeZone)
        first == curr_dt_of(row)
        step == StepOfRow(row)
        last == (lookup_time_of(query) + 32 * SecondsPerDay - first) \div step
        ks == { k \in 0..last : InTargetMonth(first + k * step, off) }
    IN { first + k * step : k \in { x \in ks : Cardinality({ j \in ks : j < x }) < 5 } }

C17_NoneMissing ==
    DaysAnswered =>
        \A i \in 1..Len(staff_schedule_items) :
            FirstInMonth(staff_schedule_items[i])
                \subseteq { EntriesOf(i)[j].utc : j \in 1..Len(EntriesOf(i)) }

(***************************************************************************)
(* C18: the step of DAILY is 1 day, of WEEKLY 7 days, of MONTHLY 28 days   *)
(* and of YEARLY 364 days; for any other frequency the row's walk is not   *)
(* started and the request is answered with the error "Invalid frequency"  *)
(* and no occurrence.                                                      *)
(***************************************************************************)
C18_FrequencySteps ==
    [][/\ (dpc = "item" /\ dpc' # "item" /\ item <= Len(staff_schedule_items)) =>
             IF staff_schedule_items[item].recurrenceRule.frequency \in ValidFrequencies
             THEN dpc' = "walk"
             ELSE /\ dpc' = "done"
                  /\ days_response' = [error |-> ErrFrequency]
       /\ (dpc = "walk" /\ pos' # pos) =>
             pos' = pos + StepOfRow(staff_schedule_items[item])]_vars

\* the second row's frequency is no frequency: the occurrences of the first
\* row are dropped with the error
C18_Witness ==
    /\ dpc = "done"
    /\ days_result = ErrFrequency
    /\ Len(available_days) > 0
    /\ "available" \notin DOMAIN days_response

(***************************************************************************)
(* Vocabulary of the hour-list properties.  Times are seconds since the    *)
(* local midnight of the requested date: 86400 and more is the next day.   *)
(***************************************************************************)
HourStep == (hours_args.schedule.duration + hours_args.schedule.break) * SecondsPerMinute
HourBreak == hours_args.schedule.break * SecondsPerMinute
WindowStart == hours_args.staff_schedule.start
WindowEnd == hours_args.staff_schedule.end

\* the hour list has been computed, and the loop has ended by its own test
\* (the list is the whole list of the code, not a prefix cut at MaxSlots)
HoursAnswered == hpc = "done" /\ Len(available_hours) < MaxSlots

\* duration + break evenly divides the working window
EvenlyDivides == (WindowEnd - WindowStart) % HourStep = 0

LastSlot == available_hours[Len(available_hours)]

C20_SlotsWithinWindow ==
    hpc = "done" =>
        \A i \in 1..Len(available_hours) :
            /\ available_hours[i].start.local >= WindowStart
            /\ available_hours[i].end.local <= WindowEnd

(***************************************************************************)
(* C21: the window 10:00 - 18:00 with duration 45 and break 15 gives       *)
(* exactly 8 slots, starting at 10:00, 11:00, ..., 17:00 and 45 minutes    *)
(* long; with a single booking at 11:00 the 11:00 slot alone is booked.    *)
(***************************************************************************)
ScenarioInput ==
    /\ hpc = "done"
    /\ WindowStart = 10 * 3600 /\ WindowEnd = 18 * 3600
    /\ hours_args.schedule.duration = 45 /\ hours_args.schedule.break = 15

BookedAtEleven ==
    /\ Len(hours_args.bookings) = 1
    /\ hours_args.bookings[1].bookDate.time = 11 * 3600

C21_EightSlots ==
    ScenarioInput =>
        /\ Len(available_hours) = 8
        /\ \A i \in 1..Len(available_hours) :
              /\ available_hours[i].start.local = (9 + i) * 3600
              /\ available_hours[i].end.local = (9 + i) * 3600 + 45 * SecondsPerMinute
              /\ BookedAtEleven => (available_hours[i].is_booked <=> i = 2)
              /\ hours_args.bookings = << >> => ~available_hours[i].is_booked

C21_Witness ==
    /\ ScenarioInput /\ BookedAtEleven
    /\ Len(available_hours) = 8
    /\ available_hours[2].is_booked
    /\ ~available_hours[1].is_booked /\ ~available_hours[8].is_booked

(***************************************************************************)
(* C22: the slots are in strictly ascending start order, the first starts  *)
(* at the window's start, each is exactly duration long, each next one     *)
(* starts duration + break after the one before, and no two overlap.       *)
(***************************************************************************)
HourLength == hours_args.schedule.duration * SecondsPerMinute

C22_OrderedEvenlySpaced ==
    hpc = "done" =>
        /\ Len(available_hours) >= 1 => available_hours[1].start.local = WindowStart
        /\ \A i \in 1..Len(available_hours) :
              available_hours[i].end.local = available_hours[i].start.local + HourLength
        /\ \A i \in 1..(Len(available_hours) - 1) :
              /\ available_hours[i].start.local < available_hours[i + 1].start.local
              /\ available_hours[i + 1].start.local = available_hours[i].start.local + HourStep
              /\ available_hours[i].end.local <= available_hours[i + 1].start.local

\* three slots or more, with a break between them
C22_Witness ==
    /\ HoursAnswered
    /\ Len(available_hours) >= 3
    /\ HourBreak > 0
    /\ available_hours[3].start.local = WindowStart + 2 * HourStep

(***************************************************************************)
(* C23: a slot is flagged booked if and only if some booked instant, read  *)
(* in the schedule's offset, lies in [cursor, cursor + duration], both     *)
(* bounds included, where cursor is the slot's local start.                *)
(***************************************************************************)
BookedWallClocks ==
    { hours_args.bookings[j].bookDate.time : j \in 1..Len(hours_args.bookings) }

C23_BookedIffWithinInclusive ==
    hpc = "done" =>
        \A i \in 1..Len(available_hours) :
            available_hours[i].is_booked <=>
                \E t \in BookedWallClocks :
                    /\ available_hours[i].start.local <= t
                    /\ t <= available_hours[i].start.local + HourLength

\* a booking at the very end of a slot flags it, and a booking at the very
\* start of a slot flags it
C23_Witness ==
    /\ hpc = "done"
    /\ Len(available_hours) >= 2
    /\ \E t \in BookedWallClocks :
          /\ t = available_hours[1].start.local + HourLength
          /\ t = available_hours[2].start.local
    /\ available_hours[1].is_booked
    /\ available_hours[2].is_booked

(***************************************************************************)
(* C24: when duration + break is longer than the working window, the slot  *)
(* list is empty, for every such duration and break.                       *)
(***************************************************************************)
C24_TooLongGivesNoSlot ==
    (hpc = "done" /\ HourStep > WindowEnd - WindowStart) => available_hours = << >>

(***************************************************************************)
(* Vocabulary of C25.                                                      *)
(***************************************************************************)
\* the step is the removing step of a commit or abort for key k
ReleaseStepFor(k) ==
    \E c \in Clients :
        /\ pc[c] \in {"error_lock", "after_schedule"}
        /\ KeyOf(req[c]) = k
        /\ Steps(c)

\* a held key keeps its entry and its token in every step that is no commit's
\* or abort's removal of it
EntryStays ==
    \A k \in DOMAIN PROCESSING_FORMS :
        ReleaseStepFor(k)
        \/ (k \in DOMAIN PROCESSING_FORMS' /\ PROCESSING_FORMS'[k] = PROCESSING_FORMS[k])

\* a begin returns that was sent while its key was held, no commit or abort
\* for the key having been sent or having acted since
LaterBeginReturns(c) == Returns(c) /\ req[c].op = "before" /\ later[c]

\* the errors a begin returns before it looks the key up
BeforeLookupErrors == {ErrStore, ErrService, ErrSchedule, ErrStaff}

(***************************************************************************)
(* C25: once a begin has succeeded for key K and while no commit or abort  *)
(* for K is executed, K stays in the lock table with the same token and    *)
(* every later begin for K fails with the conflict error (a begin whose    *)
(* store fetch fails is left aside).                                       *)
(***************************************************************************)
C25_HeldKeyAlwaysConflicts ==
    [][ /\ EntryStays
        /\ \A c \in Clients :
              LaterBeginReturns(c) => res'[c] \in {ErrProcessing, ErrStore} ]_vars

(* C25 as amended: K stays with the same token, and every later begin for  *)
(* K fails: with the conflict error when it reaches the lookup of K, with  *)
(* a store or referential-validation error when it fails before that.      *)
C25_HeldKeyNeverGranted ==
    [][ /\ EntryStays
        /\ \A c \in Clients :
              LaterBeginReturns(c) =>
                  /\ KeyOf(req[c]) \in DOMAIN PROCESSING_FORMS'
                  /\ IF pc[c] = "before_lock"
                     THEN res'[c] = ErrProcessing
                     ELSE /\ pc[c] \in {"before_schedule", "before_staff_schedule"}
                          /\ res'[c] \in BeforeLookupErrors ]_vars

\* a later begin for a held key has returned the conflict error, the key still
\* held with the token of the begin that took it
C25_Witness ==
    \E c \in Clients :
        /\ Finished(c, "before") /\ later[c]
        /\ res[c] = ErrProcessing
        /\ KeyOf(req[c]) \in DOMAIN began
        /\ KeyOf(req[c]) \in DOMAIN PROCESSING_FORMS
        /\ PROCESSING_FORMS[KeyOf(req[c])] = began[KeyOf(req[c])].client_key
        /\ began[KeyOf(req[c])].time # req[c].time

(***************************************************************************)
(* C26: no handler waits on a call to the external store (the bookings     *)
(* query, the schedule fetch, the Booking write) while it holds the mutex  *)
(* of the lock table.                                                      *)
(***************************************************************************)
\* the handler of c is suspended on a call to the store
AwaitsStore(c) ==
    pc[c] \in {"before_schedule", "before_staff_schedule", "before_bookings",
               "after_schedule", "after_import"}

C26_NoStoreCallUnderMutex ==
    \A c \in Clients : mutex = c => ~AwaitsStore(c)

(***************************************************************************)
(* C27: a begin or commit that fails with a validation error (referential  *)
(* mismatch, requested time not a generated slot, malformed requested time *)
(* or date) leaves the lock table and the stored Bookings as they were.    *)
(* A handler changes either of them in its returning step only.            *)
(***************************************************************************)
ValidationErrors ==
    {ErrService, ErrSchedule, ErrStaff, ErrTimeNotFound, ErrTimeParse, ErrDate}

C27_ValidationFailureChangesNothing ==
    [][ \A c \in Clients :
          (Returns(c) /\ req[c].op \in {"before", "after"} /\ res'[c] \in ValidationErrors)
              => (PROCESSING_FORMS' = PROCESSING_FORMS /\ bookings' = bookings) ]_vars

(***************************************************************************)
(* C28: the stored Bookings change only by a commit that found a lock      *)
(* entry with a matching token and that succeeds, and then by exactly one  *)
(* appended row; no begin, abort or failed commit adds, changes or removes *)
(* a row.                                                                  *)
(***************************************************************************)
\* the step is the import of c's commit, whose key the commit found held with
\* the token it sent
MatchedCommitImports(c) ==
    /\ pc[c] = "after_import" /\ req[c].op = "after"
    /\ Returns(c) /\ res'[c] = Ok
    /\ KeyOf(req[c]) \in DOMAIN began
    /\ began[KeyOf(req[c])].client_key = req[c].client_key

C28_OnlyMatchedCommitAppends ==
    [][ bookings' # bookings =>
          /\ Len(bookings') = Len(bookings) + 1
          /\ SubSeq(bookings', 1, Len(bookings)) = bookings
          /\ \E c \in Clients :
                /\ MatchedCommitImports(c)
                /\ bookings'[Len(bookings')].contactUuid = req[c].contact_uuid
                /\ \A x \in Clients \ {c} : pc'[x] = pc[x] ]_vars

\* a commit has appended its row after a begin, an abort or a failed commit
\* of the other client left the rows alone
C28_Witness ==
    \E c \in Clients :
        /\ Finished(c, "after") /\ res[c] = Ok
        /\ Len(bookings) >= 1
        /\ bookings[Len(bookings)].contactUuid = req[c].contact_uuid
        /\ \E x \in Clients \ {c} :
              /\ pc[x] = "idle"
              /\ req[x].op \in {"error", "after"}
              /\ res[x] # Pending

(***************************************************************************)
(* C29: the error a client receives for a conflict is of another kind than *)
(* the one it receives for a validation error or for a not-found error.    *)
(* The kind of a response is its status and the class its text opens with. *)
(***************************************************************************)
ConflictErrors == {ErrProcessing, ErrBooked, ErrClientKey}
NotFoundErrors == {ErrNotFound}

KindOf(r) == <<into_response(r).status, into_response(r).error[1]>>

C29_ConflictKindDistinct ==
    \A c \in Clients, x \in Clients :
        (/\ pc[c] = "idle" /\ res[c] \in ConflictErrors
         /\ pc[x] = "idle" /\ res[x] \in ValidationErrors \cup NotFoundErrors)
            => KindOf(res[c]) # KindOf(res[x])

(***************************************************************************)
(* C30: a slot is booked by the Bookings of its own service and staff      *)
(* member only: a begin fails with 'Time is already booked' only if the    *)
(* store holds a Booking of the requested service and staff member on the  *)
(* requested day within the requested slot.                                *)
(***************************************************************************)
OwnBookingIn(r) ==
    \E i \in 1..Len(bookings) :
        /\ bookings[i].service = r.service_id
        /\ bookings[i].staffMember = r.staff_id
        /\ bookings[i].bookDate.date = DateOf(r)
        /\ bookings[i].bookDate.time >= r.time
        /\ bookings[i].bookDate.time <= r.time + LengthOf(r)

C30_BookedByOwnServiceOnly ==
    \A c \in Clients :
        (Finished(c, "before") /\ res[c] = ErrBooked) => OwnBookingIn(req[c])

(***************************************************************************)
(* C31: the occurrence list does not depend on the recurrence rule's       *)
(* interval or days: two rows that differ in them alone (and in their id)  *)
(* get the same occurrences, one period of the frequency apart.            *)
(***************************************************************************)
\* an entry without the id of its row
Occurrence(e) == [e EXCEPT !.staffScheduleId = ""]
OccurrencesOf(i) == [k \in 1..Len(EntriesOf(i)) |-> Occurrence(EntriesOf(i)[k])]

\* the rows differ in id, interval and days at most
SameButInterval(a, b) ==
    [a EXCEPT !.id = "", !.recurrenceRule.interval = 1, !.recurrenceRule.days = << >>]
        = [b EXCEPT !.id = "", !.recurrenceRule.interval = 1, !.recurrenceRule.days = << >>]

C31_IntervalIgnored ==
    DaysAnswered =>
        \A i \in 1..Len(staff_schedule_items), j \in 1..Len(staff_schedule_items) :
            SameButInterval(staff_schedule_items[i], staff_schedule_items[j]) =>
                /\ OccurrencesOf(i) = OccurrencesOf(j)
                /\ \A k \in 1..(Len(EntriesOf(j)) - 1) :
                      EntriesOf(j)[k + 1].utc
                          = EntriesOf(j)[k].utc + StepOfRow(staff_schedule_items[j])

\* a row of interval 1 and its twin of interval 2, several occurrences each
C31_Witness ==
    /\ DaysAnswered
    /\ Len(staff_schedule_items) = 2
    /\ staff_schedule_items[1].recurrenceRule.interval = 1
    /\ staff_schedule_items[2].recurrenceRule.interval = 2
    /\ SameButInterval(staff_schedule_items[1], staff_schedule_items[2])
    /\ Len(EntriesOf(1)) >= 3
    /\ Len(EntriesOf(2)) = Len(EntriesOf(1))

(***************************************************************************)
(* C32: the Booking row a successful commit writes has the date and the    *)
(* time that the begin which took the key validated as a free slot.        *)
(***************************************************************************)
C32_CommitWritesBegunSlot ==
    [][ \A c \in Clients :
          (MatchedCommitImports(c) /\ bookings' # bookings) =>
              /\ bookings'[Len(bookings')].bookDate.date = DateOf(began[KeyOf(req[c])])
              /\ bookings'[Len(bookings')].bookDate.time = began[KeyOf(req[c])].time ]_vars

(***************************************************************************)
(* C33: no begin passes its lock check or reads the store's bookings       *)
(* between a commit's removal of the lock entry and the end of that        *)
(* commit's Booking write; a begin that reads the bookings after the write *)
(* finds the Booking and fails with 'Time is already booked'.              *)
(***************************************************************************)
\* the commit of c stands between taking the mutex and the end of its write
CommitInWindow(c) == pc[c] \in {"after_schedule", "after_import"}

\* the store holds a Booking at the date and time r asks for
WrittenAt(r) ==
    \E i \in 1..Len(bookings) :
        bookings[i].bookDate = [date |-> DateOf(r), time |-> r.time]

NoBeginInsideCommit ==
    \A c \in Clients, x \in Clients :
        CommitInWindow(c) =>
            /\ pc[x] # "before_bookings"
            /\ ~(pc[x] = "before_lock" /\ Steps(x))

C33_NoBeginBetweenRemovalAndWrite ==
    [][ /\ NoBeginInsideCommit
        /\ \A x \in Clients :
              (/\ pc[x] = "before_bookings" /\ Returns(x)
               /\ req[x].time \in SlotStartsOf(req[x])
               /\ WrittenAt(req[x])
               /\ res'[x] # ErrStore)
                  => res'[x] = ErrBooked ]_vars

\* a begin waits at the lock check while a commit for its key and time has
\* removed the entry and has not yet written
C33_Witness ==
    \E c \in Clients, x \in Clients :
        /\ pc[c] = "after_import"
        /\ pc[x] = "before_lock"
        /\ KeyOf(req[x]) = KeyOf(req[c])
        /\ req[x].time = req[c].time
        /\ KeyOf(req[c]) \notin DOMAIN PROCESSING_FORMS

(***************************************************************************)
(* C34: the slot loop of gather_available_hours terminates, for every      *)
(* window with startTime < endTime, duration > 0 and break >= 0.           *)
(***************************************************************************)
C34_SlotLoopTerminates == <>(hpc = "done")

(***************************************************************************)
(* C35: a day-list request for a month that lies entirely before a row's   *)
(* start day gets no occurrence of that row.                               *)
(***************************************************************************)
\* the requested month ends before the month of the row's start day begins
TargetBeforeAnchor(row) ==
    \/ query.year < row.startDay[1]
    \/ (query.year = row.startDay[1] /\ query.month < row.startDay[2])

C35_NothingBeforeAnchor ==
    DaysAnswered =>
        \A i \in 1..Len(staff_schedule_items) :
            TargetBeforeAnchor(staff_schedule_items[i]) => EntriesOf(i) = << >>

(***************************************************************************)
(* C36: a begin, commit or abort on key K never adds, removes or changes   *)
(* the lock-table entry of another key, and an entry held for another key  *)
(* never makes a begin for K fail: a begin fails with the conflict error   *)
(* only when K itself is held.                                             *)
(***************************************************************************)
EntryOf(forms, k) == IF k \in DOMAIN forms THEN <<forms[k]>> ELSE << >>

C36_OtherKeysUntouched ==
    [][ /\ \A k \in DOMAIN PROCESSING_FORMS \cup DOMAIN PROCESSING_FORMS' :
              EntryOf(PROCESSING_FORMS', k) # EntryOf(PROCESSING_FORMS, k) =>
                  \E c \in Clients : Steps(c) /\ req'[c] = req[c] /\ KeyOf(req[c]) = k
        /\ \A c \in Clients :
              (Returns(c) /\ req[c].op = "before" /\ res'[c] = ErrProcessing)
                  => KeyOf(req[c]) \in DOMAIN PROCESSING_FORMS ]_vars

\* a begin has succeeded for one key while another key was held, and both
\* entries stand
C36_Witness ==
    \E c \in Clients :
        /\ Finished(c, "before") /\ res[c] = Ok
        /\ KeyOf(req[c]) \in DOMAIN PROCESSING_FORMS
        /\ \E k \in DOMAIN PROCESSING_FORMS :
              /\ k # KeyOf(req[c])
              /\ k \in DOMAIN began
              /\ began[k].client_key = PROCESSING_FORMS[k]

(***************************************************************************)
(* C37: under fair scheduling, every store call returning, every begin,    *)
(* commit and abort call returns, and has released the mutex of the lock   *)
(* table when it has returned; no interleaving deadlocks on the mutex.     *)
(***************************************************************************)
C37_EveryCallReturns ==
    /\ [](\A c \in Clients : pc[c] = "idle" => mutex # c)
    /\ \A c \in Clients : (pc[c] # "idle") ~> (pc[c] = "idle")
    /\ \A c \in Clients : (mutex = c) ~> (mutex = NoClient)

\* a handler waits for the mutex that the handler of the other client holds
\* across a store call
C37_Witness ==
    \E c \in Clients, x \in Clients :
        /\ x # c
        /\ pc[c] \in {"before_lock", "after_lock", "error_lock"}
        /\ mutex = x
        /\ pc[x] \in {"before_bookings", "after_import"}

(***************************************************************************)
(* C38: one booked instant marks at most one slot: a booking at the start  *)
(* of a slot flags that slot and never the slot before it, whatever the    *)
(* break, a break of 0 included.                                           *)
(***************************************************************************)
C38_BookingMarksOneSlot ==
    (hpc = "done" /\ Len(hours_args.bookings) = 1) =>
        \A i \in 1..Len(available_hours) :
            hours_args.bookings[1].bookDate.time = available_hours[i].start.local =>
                /\ available_hours[i].is_booked
                /\ \A j \in 1..Len(available_hours) :
                      j # i => ~available_hours[j].is_booked

====
